---- MODULE Spec2Model ----
(***************************************************************************)
(* Nakhon Sawan agriculture dashboard (src/app.py, src/app_v1.py).         *)
(*                                                                         *)
(* The Streamlit script is modelled as a state machine.  One behaviour is  *)
(* one browser session over a fixed pair of input files: the first script  *)
(* run executes load_and_prep_data() step by step (burn file, geometry     *)
(* read A, fallback read B, preparation with the usage parse, merge,       *)
(* return into the cache), then renders the regional dashboard with the    *)
(* widgets' default values; every later widget change reruns the script    *)
(* against the cached tables.                                              *)
(*                                                                         *)
(* Encodings.  A timestamp is a record [valid, day, hour]; NaT is the      *)
(* record with valid = FALSE.  A date is [valid, day].  A numeric NaN is   *)
(* NaNNum and a missing label is NaNStr (what a left join leaves in the    *)
(* right-hand columns of an unmatched row).  A Python dict with optional   *)
(* keys is a record whose fields say whether the key is there.             *)
(***************************************************************************)
EXTENDS Integers, Sequences, FiniteSets, TLC

VARIABLES
    burn_file,          \* active_burn.parquet: [readable, rows]
    cult_file,          \* plant_cultivation.parquet: [geo, has_pv, has_usages, crs, rows]
    pc,                 \* position of the current script run
    ran,                \* steps the current script run has executed
    error,              \* message surfaced by st.error in the current run
    burn_df,            \* loader local: burn table
    gdf,                \* loader local: cultivation table [crs, rows]
    cache,              \* st.cache_data entry of load_and_prep_data: [hit, gdf, burn, merged]
    gdf_cultivation,    \* module-level cultivation table of the current run
    df_burn_raw,        \* module-level burn table of the current run
    df_merged,          \* module-level merged table of the current run
    filters,            \* widget values: [district, start, end, inst]
    dashboard_gdf,      \* plots kept by the district filter
    filtered_burns,     \* burn events kept by the burn-side filter
    dashboard_merged,   \* left join of the two, null-filled
    metrics,            \* KPI row: [total_plots, total_area, burned_area, pct]
    inspector           \* PAGE 2 of the current run: widgets, message, history, markers

vars == << burn_file, cult_file, pc, ran, error, burn_df, gdf, cache,
           gdf_cultivation, df_burn_raw, df_merged, filters,
           dashboard_gdf, filtered_burns, dashboard_merged, metrics,
           inspector >>

----------------------------------------------------------------------------
(* Bounds of the model *)

\* rows of the burn file
MaxBurns == 2
\* entries of one plot's usages value
MaxUsages == 2

----------------------------------------------------------------------------
(* Values *)

\* pandas NaT: what pd.to_datetime(errors='coerce') yields for a null or
\* unparseable value
NaT == [valid |-> FALSE, day |-> 0, hour |-> 0]

\* the date part of NaT (Series.dt.date of a NaT is NaT)
NaTDate == [valid |-> FALSE, day |-> 0]

\* NaN in a numeric column
NaNNum == -1

\* NaN / None in a label column
NaNStr == "NaN"

AllDistricts == "All Districts"

NoBurn == "No Burn"

Unknown == "Unknown"

EPSG4326 == "EPSG:4326"

NakhonSawan == "Nakhon Sawan"

----------------------------------------------------------------------------
(* Pure helpers *)

RECURSIVE SumSeq(_)
\* Series.sum()
SumSeq(s) == IF s = << >> THEN 0 ELSE Head(s) + SumSeq(Tail(s))

RECURSIVE ConcatAll(_)
ConcatAll(ss) == IF ss = << >> THEN << >> ELSE Head(ss) \o ConcatAll(Tail(ss))

\* pd.to_datetime(x, errors='coerce') on a raw cell [kind, day, hour]:
\* kind "date" is a parseable value and becomes its timestamp; a missing
\* value (None, key absent) and an unparseable one ("junk") become NaT
ToDatetime(raw) ==
    IF raw.kind = "date"
    THEN [valid |-> TRUE, day |-> raw.day, hour |-> raw.hour]
    ELSE NaT

\* Series.dt.date: the calendar date of a timestamp
DtDate(ts) == IF ts.valid THEN [valid |-> TRUE, day |-> ts.day] ELSE NaTDate

\* pd.to_numeric(x, errors='coerce').fillna(0) on a raw cell [ok, val]
ToNumericFill0(raw) == IF raw.ok THEN raw.val ELSE 0

\* a timestamp back as a raw cell (a datetime column read again by
\* pd.to_datetime)
AsCell(ts) ==
    IF ts.valid
    THEN [kind |-> "date", day |-> ts.day, hour |-> ts.hour]
    ELSE [kind |-> "missing", day |-> 0, hour |-> 0]

\* comparisons of a Date_Only cell with a slider date: NaT compares False
DateGE(d, day) == d.valid /\ d.day >= day

DateLE(d, day) == d.valid /\ d.day <= day

\* order of two valid timestamps
TsLE(a, b) == a.day < b.day \/ (a.day = b.day /\ a.hour <= b.hour)

----------------------------------------------------------------------------
(* Usage History Normalizer: parse_latest_usage *)

\* Python None / a missing key as a raw date cell
NoneCell == [kind |-> "missing", day |-> 0, hour |-> 0]

\* isinstance(usage_input, np.ndarray) -> tolist(); isinstance(list) -> itself;
\* anything else -> []
CoerceToList(usage_input) ==
    IF usage_input.kind = "ndarray" THEN usage_input.items
    ELSE IF usage_input.kind = "list" THEN usage_input.items
    ELSE << >>

\* default_info with the labels left empty
default_info_unlabelled ==
    [ Rice_Variety |-> NaNStr, Rice_Type |-> NaNStr,
      Plant_Date |-> NaT, Harvest_Date |-> NoneCell ]

default_info ==
    [ Rice_Variety |-> Unknown, Rice_Type |-> Unknown,
      Plant_Date |-> NaT, Harvest_Date |-> NoneCell ]

\* item['extension'].get(key, 'Unknown') on a dict extension block
ExtGet(ext, key) ==
    IF ext[key] = "absent" THEN Unknown ELSE ext[key]

\* 'extension' in item, and the block is not a dict: .get raises AttributeError
ItemRaises(item) ==
    item.isdict /\ item.extension.kind \in {"null", "scalar"}

\* one cycle dict built from a dict item; a key that is never set reads as NaN
\* once the cycles are put in a DataFrame
Cycle(item) ==
    [ Plant_Date   |-> item.plantDate,
      Harvest_Date |-> item.harvestDate,
      Rice_Variety |-> IF item.extension.kind = "dict"
                       THEN ExtGet(item.extension, "riceVariety") ELSE NaNStr,
      Rice_Type    |-> IF item.extension.kind = "dict"
                       THEN ExtGet(item.extension, "riceType") ELSE NaNStr ]

\* the loop over usage_list: dict items in order, other items dropped
RECURSIVE Cycles(_)
Cycles(usage_list) ==
    IF usage_list = << >> THEN << >>
    ELSE IF Head(usage_list).isdict
         THEN << Cycle(Head(usage_list)) >> \o Cycles(Tail(usage_list))
         ELSE Cycles(Tail(usage_list))

\* df_cycles.sort_values('Plant_Date', ascending=False).iloc[0]: the row
\* with the greatest plant date, the earliest such row on a tie; NaT sorts
\* last, so with no valid date at all it is the first row
LatestIndex(dates) ==
    LET valid == { i \in 1..Len(dates) : dates[i].valid }
    IN  IF valid = {} THEN 1
        ELSE CHOOSE i \in valid :
                /\ \A j \in valid : TsLE(dates[j], dates[i])
                /\ \A j \in valid : dates[j] = dates[i] => i <= j

\* parse_latest_usage: [raised, info]
parse_latest_usage(usage_input) ==
    LET usage_list == CoerceToList(usage_input)
        cycles == Cycles(usage_list)
        dates == [ i \in 1..Len(cycles) |-> ToDatetime(cycles[i].Plant_Date) ]
        latest == cycles[LatestIndex(dates)]
    IN  IF \E i \in 1..Len(usage_list) : ItemRaises(usage_list[i])
        THEN [ raised |-> TRUE, info |-> default_info ]
        ELSE IF cycles # << >>
        THEN [ raised |-> FALSE,
               info |-> [ Rice_Variety |-> latest.Rice_Variety,
                          Rice_Type    |-> latest.Rice_Type,
                          Plant_Date   |-> dates[LatestIndex(dates)],
                          Harvest_Date |-> latest.Harvest_Date ] ]
        ELSE [ raised |-> FALSE, info |-> default_info ]

\* PAGE 2, cultivation history: the selected plot's usages as a list
raw_usages_list(raw_usages) ==
    IF raw_usages.kind = "ndarray" THEN raw_usages.items
    ELSE IF raw_usages.kind = "list" THEN raw_usages.items
    ELSE << >>

\* a display cell that holds NaN
NaNCell == [kind |-> "nan", day |-> 0]

\* Series.dt.strftime('%Y-%m-%d'): the ISO date of a timestamp, NaN for NaT
StrfTime(ts) == IF ts.valid THEN [kind |-> "iso", day |-> ts.day] ELSE NaNCell

\* item.get('extension', {}).get(key, 'N/A') on an item whose extension
\* block is a dict or is not there
HistGet(ext, key) ==
    IF ext.kind = "absent" \/ ext[key] = "absent" THEN "N/A" ELSE ext[key]

\* item.get('extension', {}) is None or a scalar: .get raises AttributeError
HistoryRaises(items) ==
    \E i \in 1..Len(items) : ItemRaises(items[i])

\* the loop over raw_usages_list: one cycle per dict item, in order
RECURSIVE history_list(_)
history_list(items) ==
    IF items = << >> THEN << >>
    ELSE IF Head(items).isdict
         THEN << [ Plant_Date   |-> Head(items).plantDate,
                   Harvest_Date |-> Head(items).harvestDate,
                   Season       |-> HistGet(Head(items).extension, "seasonName"),
                   Variety      |-> HistGet(Head(items).extension, "riceVariety"),
                   Type         |-> HistGet(Head(items).extension, "riceType") ] >>
              \o history_list(Tail(items))
         ELSE history_list(Tail(items))

\* timestamp a goes before timestamp b in a descending sort: NaT goes last
SortsBefore(a, b) ==
    a.valid /\ (~b.valid \/ ~TsLE(a, b))

RECURSIVE InsertDesc(_, _)
InsertDesc(row, sorted) ==
    IF sorted = << >> THEN << row >>
    ELSE IF SortsBefore(row.Plant_Date, Head(sorted).Plant_Date)
         THEN << row >> \o sorted
         ELSE << Head(sorted) >> \o InsertDesc(row, Tail(sorted))

\* sort_values('Plant Date', ascending=False); rows with equal dates keep
\* the table's order
RECURSIVE SortDesc(_)
SortDesc(rows) ==
    IF rows = << >> THEN << >>
    ELSE InsertDesc(rows[Len(rows)], SortDesc(SubSeq(rows, 1, Len(rows) - 1)))

\* history_df as displayed: plant dates coerced, rows sorted, both date
\* columns formatted
history_df(items) ==
    LET l == history_list(items)
        coerced == [ i \in 1..Len(l) |->
                       [ l[i] EXCEPT !.Plant_Date = ToDatetime(@) ] ]
        sorted == SortDesc(coerced)
    IN  [ i \in 1..Len(sorted) |->
            [ sorted[i] EXCEPT !.Plant_Date = StrfTime(@),
                               !.Harvest_Date = StrfTime(ToDatetime(@)) ] ]

\* Add Harvest Markers: one vline per row whose harvest cell is not null
HarvestMarkers(history) ==
    LET shown == SelectSeq(history, LAMBDA r : r.Harvest_Date.kind = "iso")
    IN  [ i \in 1..Len(shown) |-> shown[i].Harvest_Date.day ]

----------------------------------------------------------------------------
(* Loader steps of load_and_prep_data *)

\* step 1: Date_Month coerced to a timestamp, Date_Only derived from it
PrepBurnRow(r) ==
    [ id_cultivation |-> r.id_cultivation,
      Date_Month     |-> ToDatetime(r.Date_Month),
      Date_Only      |-> DtDate(ToDatetime(r.Date_Month)),
      src            |-> r.src,
      Burn_area      |-> r.Burn_area ]

PrepBurn(rows) == [ i \in 1..Len(rows) |-> PrepBurnRow(rows[i]) ]

\* Method A, gpd.read_parquet, succeeds on a GeoParquet file only
ReadASucceeds(f) == f.geo = "geoparquet"

\* Method B, pd.read_parquet + wkb.loads, decodes a WKB geometry column,
\* which a GeoParquet file holds too
ReadBSucceeds(f) == f.geo \in {"geoparquet", "wkb"}

\* the frame Method A returns carries the file's CRS; the GeoDataFrame that
\* Method B builds has none
CrsRead(f, method) == IF method = "A" THEN f.crs ELSE "none"

\* if 'pv_en' in gdf.columns: keep the Nakhon Sawan rows
ProvinceFilter(f) ==
    IF f.has_pv THEN SelectSeq(f.rows, LAMBDA r : r.pv_en = NakhonSawan)
    ELSE f.rows

\* crs None -> set_crs(4326); another crs -> to_crs(4326)
CrsFix(crs) == EPSG4326

\* one row after the area coercion and, when the file has a usages column,
\* the latest-cycle columns (Plant_Date / Harvest_Date through to_datetime)
PrepPlotRow(r, has_usages) ==
    LET u == parse_latest_usage(r.usages).info
    IN  [ id_cultivation |-> r.id_cultivation,
          ap_en          |-> r.ap_en,
          rai            |-> ToNumericFill0(r.rai),
          usages         |-> r.usages,
          Rice_Variety   |-> IF has_usages THEN u.Rice_Variety ELSE NaNStr,
          Rice_Type      |-> IF has_usages THEN u.Rice_Type ELSE NaNStr,
          Plant_Date     |-> IF has_usages
                             THEN ToDatetime(AsCell(u.Plant_Date)) ELSE NaT,
          Harvest_Date   |-> IF has_usages
                             THEN ToDatetime(u.Harvest_Date) ELSE NaT ]

\* gdf['usages'].apply(parse_latest_usage) raises on some row
ParseRaises(rows, has_usages) ==
    has_usages /\ \E i \in 1..Len(rows) : parse_latest_usage(rows[i].usages).raised

PrepPlots(rows, has_usages) ==
    [ i \in 1..Len(rows) |-> PrepPlotRow(rows[i], has_usages) ]

----------------------------------------------------------------------------
(* Join/Aggregation Engine *)

\* a merged row: the plot's columns and one burn event's columns
MergedRow(p, b) ==
    [ plot       |-> p,
      Date_Month |-> b.Date_Month,
      Date_Only  |-> b.Date_Only,
      src        |-> b.src,
      Burn_area  |-> b.Burn_area ]

\* the right-hand columns of a plot no event matches
NaNBurn ==
    [ Date_Month |-> NaT, Date_Only |-> NaTDate,
      src |-> NaNStr, Burn_area |-> NaNNum ]

\* JoinPlot as an inner join would give it: no row for an unmatched plot
JoinPlotInner(p, burns) ==
    LET hits == SelectSeq(burns, LAMBDA b : b.id_cultivation = p.id_cultivation)
    IN  [ i \in 1..Len(hits) |-> MergedRow(p, hits[i]) ]

\* the rows a left join gives one plot: one per matching event, in the burn
\* table's order, or a single row of NaNs
JoinPlot(p, burns) ==
    LET hits == SelectSeq(burns, LAMBDA b : b.id_cultivation = p.id_cultivation)
    IN  IF hits = << >> THEN << MergedRow(p, NaNBurn) >>
        ELSE [ i \in 1..Len(hits) |-> MergedRow(p, hits[i]) ]

\* pd.merge(plots, burns, on='id_cultivation', how='left')
MergeLeft(plots, burns) ==
    ConcatAll([ i \in 1..Len(plots) |-> JoinPlot(plots[i], burns) ])

\* Burn_area.fillna(0) and src.fillna('No Burn')
FillNaRow(r) ==
    [ r EXCEPT !.Burn_area = IF @ = NaNNum THEN 0 ELSE @,
               !.src       = IF @ = NaNStr THEN NoBurn ELSE @ ]

FillNa(rows) == [ i \in 1..Len(rows) |-> FillNaRow(rows[i]) ]

\* plot-side filter
DistrictFilter(plots, district) ==
    IF district # AllDistricts
    THEN SelectSeq(plots, LAMBDA p : p.ap_en = district)
    ELSE plots

\* DateMask with the end date excluded
DateMaskEndExclusive(b, start_date, end_date) ==
    DateGE(b.Date_Only, start_date) /\ b.Date_Only.valid /\ b.Date_Only.day < end_date

\* the date mask: Date_Only >= start_date and Date_Only <= end_date
DateMask(b, start_date, end_date) ==
    DateGE(b.Date_Only, start_date) /\ DateLE(b.Date_Only, end_date)

\* InstrumentFilter without its guard: isin() applied to an empty selection too
InstrumentFilterUnguarded(burns, selected_inst) ==
    SelectSeq(burns, LAMBDA b : b.src \in selected_inst)

\* the instrument step: applied only when the selection is truthy
InstrumentFilter(burns, selected_inst) ==
    IF selected_inst # {}
    THEN SelectSeq(burns, LAMBDA b : b.src \in selected_inst)
    ELSE burns

\* burn-side filter
BurnFilter(burns, start_date, end_date, selected_inst) ==
    InstrumentFilter(
        SelectSeq(burns, LAMBDA b : DateMask(b, start_date, end_date)),
        selected_inst)

\* TotalArea summed over the merged rows instead of the plots
TotalAreaOverMerged(plots, merged) ==
    SumSeq([ i \in 1..Len(merged) |-> merged[i].plot.rai ])

\* st.metric("Total Area"): dashboard_gdf['rai'].sum()
TotalArea(plots, merged) ==
    SumSeq([ i \in 1..Len(plots) |-> plots[i].rai ])

\* st.metric("Burned Area (Filtered)"): dashboard_merged['Burn_area'].sum()
BurnedArea(merged) ==
    SumSeq([ i \in 1..Len(merged) |-> merged[i].Burn_area ])

\* BurnedCount counting rows instead of distinct plots
BurnedCountRows(merged) ==
    Cardinality({ j \in 1..Len(merged) : merged[j].Burn_area > 0 })

\* dashboard_merged[Burn_area > 0]['id_cultivation'].nunique()
BurnedCount(merged) ==
    Cardinality({ merged[i].plot.id_cultivation :
                    i \in { j \in 1..Len(merged) : merged[j].Burn_area > 0 } })

\* pct = burned_count / len(dashboard_gdf) * 100 if len(dashboard_gdf) > 0
\* else 0, kept as the exact fraction num / den
Pct(burned_count, n) ==
    IF n > 0 THEN [ num |-> burned_count * 100, den |-> n ]
    ELSE [ num |-> 0, den |-> 1 ]

----------------------------------------------------------------------------
(* Sidebar widgets of the regional dashboard *)

\* ['All Districts'] + sorted(unique(ap_en))
DistrictOptions(plots) ==
    {AllDistricts} \cup { plots[i].ap_en : i \in 1..Len(plots) }

\* the days with a valid Date_Only: the slider runs from their min to their max
ValidDays(burns) ==
    { burns[i].Date_Only.day : i \in { j \in 1..Len(burns) : burns[j].Date_Only.valid } }

MinDay(burns) == CHOOSE d \in ValidDays(burns) : \A e \in ValidDays(burns) : d <= e

MaxDay(burns) == CHOOSE d \in ValidDays(burns) : \A e \in ValidDays(burns) : e <= d

\* sorted(unique(src)): the options of the instrument multiselect
AvailableInst(burns) == { burns[i].src : i \in 1..Len(burns) }

\* every value the four widgets can hold
FilterChoices(plots, burns) ==
    { f \in [ district : DistrictOptions(plots),
              start : MinDay(burns)..MaxDay(burns),
              end : MinDay(burns)..MaxDay(burns),
              inst : SUBSET AvailableInst(burns) ] : f.start <= f.end }

\* one interaction changes one widget: the district selectbox, the range
\* slider, or one option of the instrument multiselect added or removed
OneWidgetChanged(old, new) ==
    \/ /\ new.district # old.district
       /\ new = [ old EXCEPT !.district = new.district ]
    \/ /\ << new.start, new.end >> # << old.start, old.end >>
       /\ new = [ old EXCEPT !.start = new.start, !.end = new.end ]
    \/ /\ \E i \in (new.inst \cup old.inst) :
             \/ i \notin old.inst /\ new.inst = old.inst \cup {i}
             \/ i \in old.inst /\ new.inst = old.inst \ {i}
       /\ new = [ old EXCEPT !.inst = new.inst ]

\* the widgets' values on a first run
DefaultFilters(plots, burns) ==
    [ district |-> AllDistricts, start |-> MinDay(burns), end |-> MaxDay(burns),
      inst |-> AvailableInst(burns) ]

NoFilters == [ district |-> AllDistricts, start |-> 0, end |-> 0, inst |-> {} ]

NoMetrics ==
    [ total_plots |-> 0, total_area |-> 0, burned_area |-> 0,
      pct |-> [ num |-> 0, den |-> 1 ] ]

\* selected_id = None
NoId == 0

\* PAGE 2 not run
NoInspector ==
    [ search_mode |-> "none", input_id |-> 0, selected_id |-> NoId,
      message |-> "", history_df |-> << >>, note |-> "",
      farmer_burns |-> << >>, markers |-> << >>, burn_note |-> "" ]

\* the membership test with every id taken as present
IdFoundAlways(input_id, plots) == TRUE

\* input_id in gdf_cultivation['id_cultivation'].values
IdFound(input_id, plots) ==
    \E i \in 1..Len(plots) : plots[i].id_cultivation = input_id

\* PAGE 2 from the search widgets to the charts, with widget values w: the
\* position where the run ends and what it has shown
InspectorPage(plots, merged, has_usages, w) ==
    LET view == [ NoInspector EXCEPT !.search_mode = w.search_mode,
                                     !.input_id = IF w.search_mode = "id" THEN w.id ELSE 0 ]
        found == SelectSeq(plots, LAMBDA p : p.id_cultivation = w.id)
        burns == SelectSeq(merged, LAMBDA m : m.plot.id_cultivation = w.id
                                              /\ m.Burn_area > 0)
        items == raw_usages_list(found[1].usages)
        history == history_df(items)
        shown == [ view EXCEPT !.selected_id = w.id, !.farmer_burns = burns ]
    IN  IF w.search_mode = "top" /\ w.id = NoId
        THEN [ pc |-> "script_error", steps |-> {"select"}, view |-> view ]
        ELSE IF w.search_mode = "id" /\ ~(w.id > 0)
        THEN [ pc |-> "stopped", steps |-> {"lookup"},
               view |-> [ view EXCEPT !.message = "enter_valid_id" ] ]
        ELSE IF w.search_mode = "id" /\ ~IdFound(w.id, plots)
        THEN [ pc |-> "stopped", steps |-> {"lookup"},
               view |-> [ view EXCEPT !.message = "not_found" ] ]
        ELSE IF found = << >>
        THEN [ pc |-> "script_error", steps |-> {"lookup", "iloc"},
               view |-> [ view EXCEPT !.selected_id = w.id ] ]
        ELSE IF ~has_usages \/ HistoryRaises(items)
        THEN [ pc |-> "script_error", steps |-> {"lookup", "kpi", "history"},
               view |-> shown ]
        ELSE [ pc |-> "inspector",
               steps |-> {"lookup", "kpi", "history", "geometry", "burns"},
               view |-> [ shown EXCEPT
                   !.history_df = history,
                   !.note = IF items = << >> THEN "no_history"
                            ELSE IF history = << >> THEN "format_empty" ELSE "",
                   !.markers = IF burns # << >> THEN HarvestMarkers(history)
                               ELSE << >>,
                   !.burn_note = IF burns = << >> THEN "no_burn_history" ELSE "" ] ]

\* SourceAfterFilter for a filter that assigns its result to the source name
SourceAfterFilterInPlace(source, kept) == kept

\* a table the filter logic has read: boolean-mask indexing and .copy() build
\* new frames, the source frame is left as it was
SourceAfterFilter(source, kept) == source

\* the KPI row
Metrics(plots, merged) ==
    [ total_plots |-> Len(plots),
      total_area  |-> TotalArea(plots, merged),
      burned_area |-> BurnedArea(merged),
      pct         |-> Pct(BurnedCount(merged), Len(plots)) ]

\* FILTER LOGIC: the merged view of the dashboard
DashboardMerged(plots, burns, f) ==
    FillNa(MergeLeft(DistrictFilter(plots, f.district),
                     BurnFilter(burns, f.start, f.end, f.inst)))

----------------------------------------------------------------------------
(* Input files *)

PlotIds == {101, 102}

Districts == {"Banphot Phisai", "Chum Saeng"}

Sources == {"VIIRS", "MODIS"}

DateCell(d, h) == [kind |-> "date", day |-> d, hour |-> h]

JunkCell == [kind |-> "junk", day |-> 0, hour |-> 0]

NullUsages == [kind |-> "null", items |-> << >>]

\* sequences over S of length at most n
SeqsUpTo(S, n) == UNION { [1..k -> S] : k \in 0..n }

BurnRows(ids, cells, srcs, areas) ==
    [ id_cultivation : ids, Date_Month : cells, src : srcs, Burn_area : areas ]

PlotRows(id, pvs, districts, rais, usages) ==
    [ id_cultivation : {id}, pv_en : pvs, ap_en : districts, rai : rais,
      usages : usages ]

\* cultivation tables of at most two plots, ids 101, 102 in file order; the
\* first plot lies in one of first_districts
PlotTables(pvs, first_districts, districts, rais, usages) ==
    { << >> }
    \cup { << p >> : p \in PlotRows(101, pvs, first_districts, rais, usages) }
    \cup { << p, q >> : p \in PlotRows(101, pvs, first_districts, rais, usages),
                        q \in PlotRows(102, pvs, districts, rais, usages) }

GoodFile(rows) ==
    [ geo |-> "geoparquet", has_pv |-> TRUE, has_usages |-> TRUE,
      crs |-> EPSG4326, rows |-> rows ]

Readable(rows) == [ readable |-> TRUE, rows |-> rows ]

\* usage entries: a non-record item, and dict items
NonRecord ==
    [ isdict |-> FALSE, plantDate |-> NoneCell, harvestDate |-> NoneCell,
      extension |-> [kind |-> "absent", riceVariety |-> "absent", riceType |-> "absent",
                     seasonName |-> "absent"] ]

ExtAbsent == [kind |-> "absent", riceVariety |-> "absent", riceType |-> "absent",
                     seasonName |-> "absent"]

ExtFull ==
    [kind |-> "dict", riceVariety |-> "RD41", riceType |-> "Jasmine",
     seasonName |-> "Wet"]

ExtPartial ==
    [kind |-> "dict", riceVariety |-> "KDML105", riceType |-> "absent",
     seasonName |-> "absent"]

ExtNull == [kind |-> "null", riceVariety |-> "absent", riceType |-> "absent",
                     seasonName |-> "absent"]

ExtScalar == [kind |-> "scalar", riceVariety |-> "absent", riceType |-> "absent",
                     seasonName |-> "absent"]

UsageEntries ==
    { NonRecord }
    \cup [ isdict : {TRUE},
           plantDate : { NoneCell, JunkCell, DateCell(1, 0), DateCell(2, 0) },
           harvestDate : { NoneCell, DateCell(3, 0) },
           extension : { ExtAbsent, ExtFull, ExtPartial } ]
    \cup [ isdict : {TRUE}, plantDate : { DateCell(1, 0) },
           harvestDate : { NoneCell }, extension : { ExtNull, ExtScalar } ]

UsageValues ==
    { NullUsages, [kind |-> "scalar", items |-> << >>] }
    \cup [ kind : {"list", "ndarray"}, items : SeqsUpTo(UsageEntries, MaxUsages) ]

\* values of the number_input "Enter Farmer ID": its default 0 and the ids
\* the input files draw from
InputIds == {0} \cup PlotIds

\* the ids offered by the "Select Farmer" selectbox; with no row the
\* selectbox returns None
TopBurnerIds(merged) ==
    IF merged = << >> THEN {NoId}
    ELSE { merged[i].plot.id_cultivation : i \in 1..Len(merged) }

\* farmer_ranks: a plot's Burn_area summed over its merged rows
BurnTotal(merged, id) ==
    SumSeq([ i \in 1..Len(merged) |->
               IF merged[i].plot.id_cultivation = id THEN merged[i].Burn_area ELSE 0 ])

\* widget values of PAGE 2
InspectorChoices(merged) ==
    [ search_mode : {"top"}, id : TopBurnerIds(merged) ]
    \cup [ search_mode : {"id"}, id : InputIds ]

\* widget values of PAGE 2 when the page is opened: the first search mode
\* and the first label of farmer_ranks, a plot with the greatest total
\* (among equal totals the order is by landName)
InspectorDefaults(merged) ==
    [ search_mode : {"top"},
      id : { id \in TopBurnerIds(merged) :
               \A other \in TopBurnerIds(merged) \ {NoId} :
                   BurnTotal(merged, other) <= BurnTotal(merged, id) } ]

\* join inputs: many burn tables over two plots (the district names are
\* interchangeable, so the first plot's district is fixed)
InitJoin ==
    /\ burn_file \in { Readable(t) : t \in SeqsUpTo(
           BurnRows(PlotIds, { NoneCell, DateCell(1, 12), DateCell(2, 0) }, Sources, {2}),
           MaxBurns) }
    /\ cult_file \in { GoodFile(t) : t \in PlotTables(
           {NakhonSawan}, {"Banphot Phisai"}, Districts,
           { [ok |-> TRUE, val |-> 3] }, { NullUsages }) }

\* KPI inputs: areas of plots and burns
InitKpi ==
    /\ burn_file \in { Readable(t) : t \in SeqsUpTo(
           BurnRows(PlotIds, { DateCell(1, 12) }, {"VIIRS"}, {0, 2, 5}), MaxBurns) }
    /\ cult_file \in { GoodFile(t) : t \in PlotTables(
           {NakhonSawan}, {"Banphot Phisai"}, Districts,
           { [ok |-> FALSE, val |-> 0], [ok |-> TRUE, val |-> 1], [ok |-> TRUE, val |-> 3] },
           { NullUsages }) }

\* usage inputs: one plot, every usages value
InitUsage ==
    /\ burn_file = Readable(<< [ id_cultivation |-> 102, Date_Month |-> DateCell(1, 12),
                                 src |-> "VIIRS", Burn_area |-> 2 ] >>)
    /\ cult_file \in { GoodFile(<< p >>) : p \in PlotRows(
           101, {NakhonSawan}, {"Chum Saeng"}, { [ok |-> TRUE, val |-> 3] }, UsageValues) }

\* history inputs: one plot with a burn event and a few cycles, with and
\* without a harvest date
InitHistory ==
    /\ burn_file = Readable(<< [ id_cultivation |-> 101, Date_Month |-> DateCell(2, 12),
                                 src |-> "MODIS", Burn_area |-> 5 ] >>)
    /\ cult_file \in { GoodFile(<< p >>) : p \in PlotRows(
           101, {NakhonSawan}, {"Chum Saeng"}, { [ok |-> TRUE, val |-> 3] },
           [ kind : {"ndarray"},
             items : SeqsUpTo({ NonRecord,
                                [ isdict |-> TRUE, plantDate |-> DateCell(1, 0),
                                  harvestDate |-> DateCell(3, 0), extension |-> ExtFull ],
                                [ isdict |-> TRUE, plantDate |-> DateCell(2, 0),
                                  harvestDate |-> NoneCell, extension |-> ExtAbsent ],
                                [ isdict |-> TRUE, plantDate |-> JunkCell,
                                  harvestDate |-> DateCell(3, 0), extension |-> ExtPartial ] },
                              MaxUsages) ]) }

\* load inputs: unreadable and undecodable files, files without the optional
\* columns, other provinces, other coordinate systems
InitLoad ==
    /\ burn_file \in
         { [ readable |-> FALSE, rows |-> << >> ],
           Readable(<< [ id_cultivation |-> 101, Date_Month |-> DateCell(1, 12),
                         src |-> "VIIRS", Burn_area |-> 2 ] >>) }
    /\ cult_file \in
         [ geo : {"geoparquet", "wkb", "corrupt"}, has_pv : BOOLEAN,
           has_usages : BOOLEAN, crs : {"none", EPSG4326, "EPSG:32647"},
           rows : PlotTables({NakhonSawan, "Chai Nat"}, {"Chum Saeng"}, {"Chum Saeng"},
                             { [ok |-> TRUE, val |-> 3] },
                             { NullUsages,
                               [kind |-> "list", items |-> << [ isdict |-> TRUE,
                                    plantDate |-> DateCell(1, 0),
                                    harvestDate |-> NoneCell,
                                    extension |-> ExtNull ] >>] }) ]

Init ==
    /\ InitJoin \/ InitKpi \/ InitUsage \/ InitHistory \/ InitLoad
    /\ pc = "start"
    /\ ran = {}
    /\ error = ""
    /\ burn_df = << >>
    /\ gdf = [ crs |-> "none", rows |-> << >> ]
    /\ cache = [ hit |-> FALSE, gdf |-> << >>, burn |-> << >>, merged |-> << >> ]
    /\ gdf_cultivation = << >>
    /\ df_burn_raw = << >>
    /\ df_merged = << >>
    /\ filters = NoFilters
    /\ dashboard_gdf = << >>
    /\ filtered_burns = << >>
    /\ dashboard_merged = << >>
    /\ metrics = NoMetrics
    /\ inspector = NoInspector

----------------------------------------------------------------------------
(* The script, step by step *)

loader_locals == << burn_df, gdf >>

returned == << cache, gdf_cultivation, df_burn_raw, df_merged >>

dashboard == << filters, dashboard_gdf, filtered_burns, dashboard_merged, metrics,
               inspector >>

files == << burn_file, cult_file >>

\* st_stop left out: the run goes on to the next statement
st_stop_missing(next_pc) == next_pc

\* st.stop() in an exception handler: the script run ends there, whatever
\* statement would have come next
st_stop(next_pc) == "halted"

\* 1. Load Burn Data; st.error + st.stop on any exception
LoadBurn ==
    /\ pc = "start"
    /\ ran' = ran \cup {"burn"}
    /\ IF burn_file.readable
       THEN /\ burn_df' = PrepBurn(burn_file.rows)
            /\ pc' = "burn_loaded"
            /\ error' = error
       ELSE /\ burn_df' = burn_df
            /\ pc' = st_stop("burn_loaded")
            /\ error' = "active_burn.parquet"
    /\ UNCHANGED << files, gdf, returned, dashboard >>

\* Method A with the fallback entered whatever Method A did
AfterMethodAAlwaysFallback(succeeded) == "geoA_failed"

\* where the run goes after Method A: on to the province filter, or into the
\* `except Exception:` that holds Method B
AfterMethodA(succeeded) == IF succeeded THEN "geo_loaded" ELSE "geoA_failed"

\* 2. Method A: gpd.read_parquet
ReadGeoA ==
    /\ pc = "burn_loaded"
    /\ ran' = ran \cup {"geoA"}
    /\ IF ReadASucceeds(cult_file)
       THEN /\ gdf' = [ crs |-> CrsRead(cult_file, "A"), rows |-> cult_file.rows ]
            /\ pc' = AfterMethodA(TRUE)
       ELSE /\ gdf' = gdf
            /\ pc' = AfterMethodA(FALSE)
    /\ UNCHANGED << files, error, burn_df, returned, dashboard >>

\* Method B, in the handler of Method A's exception; its own exception
\* reaches the outer handler: st.error + st.stop
ReadGeoB ==
    /\ pc = "geoA_failed"
    /\ ran' = ran \cup {"geoB"}
    /\ IF ReadBSucceeds(cult_file)
       THEN /\ gdf' = [ crs |-> CrsRead(cult_file, "B"), rows |-> cult_file.rows ]
            /\ pc' = "geo_loaded"
            /\ error' = error
       ELSE /\ gdf' = gdf
            /\ pc' = st_stop("geo_loaded")
            /\ error' = "plant_cultivation.parquet"
    /\ UNCHANGED << files, burn_df, returned, dashboard >>

\* province filter, CRS fix, area coercion, latest-usage columns; an
\* exception of the usage parse reaches the outer handler
PrepCultivation ==
    /\ pc = "geo_loaded"
    /\ ran' = ran \cup {"prep"}
    /\ LET rows == ProvinceFilter(cult_file)
       IN  IF ParseRaises(rows, cult_file.has_usages)
           THEN /\ gdf' = gdf
                /\ pc' = st_stop("prepped")
                /\ error' = "plant_cultivation.parquet"
           ELSE /\ gdf' = [ crs |-> CrsFix(gdf.crs),
                            rows |-> PrepPlots(rows, cult_file.has_usages) ]
                /\ pc' = "prepped"
                /\ error' = error
    /\ UNCHANGED << files, burn_df, returned, dashboard >>

\* 3. Merge for Analysis, return; the call's result goes to the cache and to
\* the module-level names
MergeAndReturn ==
    /\ pc = "prepped"
    /\ ran' = ran \cup {"merge"}
    /\ LET merged_df == FillNa(MergeLeft(gdf.rows, burn_df))
       IN  /\ cache' = [ hit |-> TRUE, gdf |-> gdf.rows, burn |-> burn_df,
                         merged |-> merged_df ]
           /\ gdf_cultivation' = gdf.rows
           /\ df_burn_raw' = burn_df
           /\ df_merged' = merged_df
    /\ pc' = "loaded"
    /\ UNCHANGED << files, error, loader_locals, dashboard >>

\* PAGE 1 from the sidebar to the charts, with widget values f, over the
\* module-level tables plots and burns
Dashboard(plots, burns, f, steps) ==
    LET d_gdf == DistrictFilter(plots, f.district)
        f_burns == BurnFilter(burns, f.start, f.end, f.inst)
        d_merged == FillNa(MergeLeft(d_gdf, f_burns))
    IN  /\ filters' = f
        /\ dashboard_gdf' = d_gdf
        /\ filtered_burns' = f_burns
        /\ dashboard_merged' = d_merged
        /\ metrics' = Metrics(d_gdf, d_merged)
        /\ inspector' = NoInspector
        /\ gdf_cultivation' = SourceAfterFilter(plots, d_gdf)
        /\ df_burn_raw' = SourceAfterFilter(burns, f_burns)
        /\ ran' = steps \cup {"filter", "join", "metrics"}
                        \cup (IF d_gdf # << >> THEN {"map"} ELSE {})
        /\ pc' = "dashboard"

\* the first run goes on to the dashboard with the widgets' defaults
RenderFirst ==
    /\ pc = "loaded"
    /\ ValidDays(df_burn_raw) # {}
    /\ Dashboard(gdf_cultivation, df_burn_raw,
                 DefaultFilters(gdf_cultivation, df_burn_raw), ran)
    /\ UNCHANGED << files, error, loader_locals, cache, df_merged >>

\* no burn row has a valid date: min() and max() of Date_Only are NaN and
\* the date slider raises
SliderError ==
    /\ pc = "loaded"
    /\ ValidDays(df_burn_raw) = {}
    /\ pc' = "script_error"
    /\ ran' = ran \cup {"slider"}
    /\ UNCHANGED << files, error, loader_locals, returned, dashboard >>

\* a widget change reruns the script: load_and_prep_data() is answered from
\* the cache, then PAGE 1 runs with the new widget values
FilterChange ==
    /\ pc = "dashboard"
    /\ cache.hit
    /\ \E f \in FilterChoices(cache.gdf, cache.burn) :
          /\ OneWidgetChanged(filters, f)
          /\ Dashboard(cache.gdf, cache.burn, f, {"cache"})
    /\ df_merged' = cache.merged
    /\ UNCHANGED << files, error, loader_locals, cache >>

\* the load is cached and the last run got as far as the sidebar: the
\* next widget change reruns the script with the tables of the cache
SessionLive ==
    /\ cache.hit
    /\ pc \in {"dashboard", "inspector", "stopped", "script_error"}

\* the page radio set to the Farmer Inspector, or a search widget changed:
\* a rerun answered from the cache that runs PAGE 2; PAGE 1 is not run and
\* its widgets are dropped
FarmerInspector ==
    /\ SessionLive
    /\ \E w \in IF inspector.search_mode = "none"
              THEN InspectorDefaults(cache.merged)
              ELSE InspectorChoices(cache.merged) :
          LET run == InspectorPage(cache.gdf, cache.merged, cult_file.has_usages, w)
          IN  /\ pc' = run.pc
              /\ ran' = {"cache"} \cup run.steps
              /\ inspector' = run.view
    /\ gdf_cultivation' = cache.gdf
    /\ df_burn_raw' = cache.burn
    /\ df_merged' = cache.merged
    /\ filters' = NoFilters
    /\ dashboard_gdf' = << >>
    /\ filtered_burns' = << >>
    /\ dashboard_merged' = << >>
    /\ metrics' = NoMetrics
    /\ UNCHANGED << files, error, loader_locals, cache >>

\* the page radio set back to the Regional Dashboard: a rerun answered from
\* the cache that runs PAGE 1 with the widgets' defaults
BackToDashboard ==
    /\ SessionLive
    /\ pc # "dashboard"
    /\ IF ValidDays(cache.burn) # {}
       THEN Dashboard(cache.gdf, cache.burn,
                      DefaultFilters(cache.gdf, cache.burn), {"cache"})
       ELSE /\ pc' = "script_error"
            /\ ran' = {"cache", "slider"}
            /\ gdf_cultivation' = cache.gdf
            /\ df_burn_raw' = cache.burn
            /\ filters' = NoFilters
            /\ dashboard_gdf' = << >>
            /\ filtered_burns' = << >>
            /\ dashboard_merged' = << >>
            /\ metrics' = NoMetrics
            /\ inspector' = NoInspector
    /\ df_merged' = cache.merged
    /\ UNCHANGED << files, error, loader_locals, cache >>

\* a rerun after st.stop: nothing was cached, the script starts over
Rerun ==
    /\ pc = "halted"
    /\ pc' = "start"
    /\ ran' = {}
    /\ error' = ""
    /\ burn_df' = << >>
    /\ gdf' = [ crs |-> "none", rows |-> << >> ]
    /\ UNCHANGED << files, returned, dashboard >>

Next ==
    \/ LoadBurn
    \/ ReadGeoA
    \/ ReadGeoB
    \/ PrepCultivation
    \/ MergeAndReturn
    \/ RenderFirst
    \/ SliderError
    \/ FilterChange
    \/ FarmerInspector
    \/ BackToDashboard
    \/ Rerun

Spec == Init /\ [][Next]_vars

----------------------------------------------------------------------------
(* Properties *)

\* the indexes of the rows of a table that satisfy a condition
MergedRowsOf(id) ==
    { i \in 1..Len(dashboard_merged) : dashboard_merged[i].plot.id_cultivation = id }

EventsOf(burns, id) ==
    SelectSeq(burns, LAMBDA b : b.id_cultivation = id)

PlotIdsOf(plots) == { plots[i].id_cultivation : i \in 1..Len(plots) }

\* the rows of the merged view that belong to plot id, in order, reduced to
\* their burn columns
MergedBurnColumns(id) ==
    LET rows == SelectSeq(dashboard_merged, LAMBDA r : r.plot.id_cultivation = id)
    IN  [ i \in 1..Len(rows) |-> << rows[i].Burn_area, rows[i].src >> ]

InRange(b, f) ==
    b.Date_Only.valid /\ f.start <= b.Date_Only.day /\ b.Date_Only.day <= f.end

\* C1: in the merged view every filtered plot without a filtered burn event
\* has exactly one row, with Burn_area = 0 and src = "No Burn"; a plot that N
\* filtered events reference has exactly N rows, the i-th carrying the i-th
\* event's Burn_area and src; no row belongs to a plot outside the filtered
\* plot set.
C1_MergedViewShape ==
    pc = "dashboard" =>
        /\ \A i \in 1..Len(dashboard_gdf) :
              LET id == dashboard_gdf[i].id_cultivation
                  ev == EventsOf(filtered_burns, id)
              IN  IF ev = << >>
                  THEN MergedBurnColumns(id) = << << 0, NoBurn >> >>
                  ELSE /\ Cardinality(MergedRowsOf(id)) = Len(ev)
                       /\ MergedBurnColumns(id) =
                            [ k \in 1..Len(ev) |-> << ev[k].Burn_area, ev[k].src >> ]
        /\ \A i \in 1..Len(dashboard_merged) :
              dashboard_merged[i].plot.id_cultivation \in PlotIdsOf(dashboard_gdf)

\* C1 witness: one filtered plot without a filtered event and another with
\* two of them
C1_Witness ==
    /\ pc = "dashboard"
    /\ \E i, j \in 1..Len(dashboard_gdf) :
          /\ EventsOf(filtered_burns, dashboard_gdf[i].id_cultivation) = << >>
          /\ Len(EventsOf(filtered_burns, dashboard_gdf[j].id_cultivation)) = 2
    /\ Len(dashboard_merged) = 3

C3_BurnSideFilter ==
    (pc = "dashboard" /\ filters.inst # {}) =>
        /\ filtered_burns =
              SelectSeq(df_burn_raw,
                        LAMBDA b : InRange(b, filters) /\ b.src \in filters.inst)
        /\ \A i \in 1..Len(dashboard_merged) :
              dashboard_merged[i].src # NoBurn =>
                  /\ dashboard_merged[i].src \in filters.inst
                  /\ InRange(dashboard_merged[i], filters)
        /\ \A i \in 1..Len(dashboard_gdf) :
              LET id == dashboard_gdf[i].id_cultivation
                  ev == SelectSeq(EventsOf(df_burn_raw, id),
                                  LAMBDA b : InRange(b, filters))
              IN  (filters.inst = {"VIIRS"} /\ Len(ev) = 2
                     /\ { ev[1].src, ev[2].src } = {"VIIRS", "MODIS"})
                  => /\ Cardinality(MergedRowsOf(id)) = 1
                     /\ \A k \in MergedRowsOf(id) : dashboard_merged[k].src = "VIIRS"

\* C3 witness: the selection is {VIIRS}, a filtered plot has a VIIRS and a
\* MODIS event in range, one of them on the end date itself
C3_Witness ==
    /\ pc = "dashboard"
    /\ filters.inst = {"VIIRS"}
    /\ \E i \in 1..Len(dashboard_gdf) :
          LET ev == SelectSeq(EventsOf(df_burn_raw, dashboard_gdf[i].id_cultivation),
                              LAMBDA b : InRange(b, filters))
          IN  /\ Len(ev) = 2
              /\ { ev[1].src, ev[2].src } = {"VIIRS", "MODIS"}
              /\ \E k \in 1..2 : ev[k].Date_Only.day = filters.end /\ ev[k].Date_Month.hour > 0

\* the script positions at which the cultivation table has been prepared
AfterPrep ==
    {"prepped", "loaded", "dashboard", "inspector", "stopped", "script_error"}

\* the script positions at which load_and_prep_data has returned
AfterLoad == {"loaded", "dashboard", "inspector", "stopped", "script_error"}

\* the structured entries of a usages value, in order
StructuredEntries(u) ==
    SelectSeq(IF u.kind \in {"list", "ndarray"} THEN u.items ELSE << >>,
              LAMBDA e : e.isdict)

\* the structured entries with a parseable plant date
DatedEntries(u) ==
    { k \in 1..Len(StructuredEntries(u)) :
        StructuredEntries(u)[k].plantDate.kind = "date" }

IsDefaultSummary(row) ==
    /\ row.Rice_Variety = Unknown
    /\ row.Rice_Type = Unknown
    /\ ~row.Plant_Date.valid
    /\ ~row.Harvest_Date.valid

\* row's latest-cycle columns are those of the structured entry e
SummaryOf(row, e) ==
    /\ row.Plant_Date.valid
    /\ row.Plant_Date.day = e.plantDate.day
    /\ row.Harvest_Date.valid = (e.harvestDate.kind = "date")
    /\ row.Harvest_Date.valid => row.Harvest_Date.day = e.harvestDate.day
    /\ e.extension.kind = "dict" =>
          /\ row.Rice_Variety = IF e.extension.riceVariety = "absent"
                                THEN Unknown ELSE e.extension.riceVariety
          /\ row.Rice_Type = IF e.extension.riceType = "absent"
                             THEN Unknown ELSE e.extension.riceType

\* first half of C4: a plot with a dated structured entry gets the summary of
\* an entry with the greatest plant date
C4_LatestAmongDated ==
    (pc \in AfterPrep /\ cult_file.has_usages) =>
        \A i \in 1..Len(gdf.rows) :
            LET u == gdf.rows[i].usages
                S == StructuredEntries(u)
            IN  DatedEntries(u) # {} =>
                    \E k \in DatedEntries(u) :
                        /\ \A j \in DatedEntries(u) :
                              S[j].plantDate.day <= S[k].plantDate.day
                        /\ SummaryOf(gdf.rows[i], S[k])

\* second half of C4: a plot without any dated structured entry gets the
\* all-default summary
C4_DefaultWithoutDated ==
    (pc \in AfterPrep /\ cult_file.has_usages) =>
        \A i \in 1..Len(gdf.rows) :
            DatedEntries(gdf.rows[i].usages) = {} => IsDefaultSummary(gdf.rows[i])

\* C4 as stated: the latest-cycle summary of every plot is the structured
\* entry with the greatest valid plant date, and the all-default record
\* (Unknown, Unknown, null, null) when no entry has a valid plant date.
C4_LatestCycle == C4_LatestAmongDated /\ C4_DefaultWithoutDated

\* C5 as stated: a malformed usage entry never becomes an error: once the
\* cultivation file is decoded, the preparation with the usage parse does not
\* end the run in the fatal-load-error state.
C5_MalformedEntryNeverFatal ==
    "prep" \in ran => (pc # "halted" /\ error = "")

NotASequence(u) == u.kind \notin {"list", "ndarray"}

\* C6: a plot whose usages value is null or not a sequence gets an empty
\* history and the all-default latest-cycle summary, its parse raises nothing
\* (a file of such plots is never a fatal load error once decoded), and with
\* no matching burn event its merged row has Burn_area = 0, src = "No Burn".
C6_AbsentUsages ==
    /\ ( /\ "prep" \in ran
         /\ \A i \in 1..Len(cult_file.rows) : NotASequence(cult_file.rows[i].usages) )
       => pc # "halted"
    /\ (pc \in AfterPrep /\ cult_file.has_usages) =>
          \A i \in 1..Len(gdf.rows) :
              NotASequence(gdf.rows[i].usages) =>
                  /\ IsDefaultSummary(gdf.rows[i])
                  /\ raw_usages_list(gdf.rows[i].usages) = << >>
    /\ pc \in AfterLoad =>
          \A i \in 1..Len(gdf_cultivation) :
              ( /\ NotASequence(gdf_cultivation[i].usages)
                /\ EventsOf(df_burn_raw, gdf_cultivation[i].id_cultivation) = << >> )
              => LET rows == SelectSeq(df_merged, LAMBDA r :
                        r.plot.id_cultivation = gdf_cultivation[i].id_cultivation)
                 IN  /\ Len(rows) = 1
                     /\ rows[1].Burn_area = 0
                     /\ rows[1].src = NoBurn

\* C6 witness: the dashboard shows a plot whose usages value is a scalar,
\* with the default summary, and no burn event matches it
C6_Witness ==
    /\ pc = "dashboard"
    /\ Len(gdf_cultivation) = 1
    /\ gdf_cultivation[1].usages.kind = "scalar"
    /\ gdf_cultivation[1].Rice_Variety = Unknown
    /\ Len(df_merged) = 1
    /\ df_merged[1].src = NoBurn

\* C7: Total Area is the sum of rai over the plots the district filter keeps,
\* each plot once: no burn table, date range or instrument selection enters it.
C7_TotalAreaCountsPlotsOnce ==
    pc = "dashboard" =>
        metrics.total_area =
            SumSeq([ i \in 1..Len(gdf_cultivation) |->
                IF filters.district = AllDistricts
                   \/ gdf_cultivation[i].ap_en = filters.district
                THEN gdf_cultivation[i].rai ELSE 0 ])

\* C7 witness: a filtered plot of positive area has two merged rows
C7_Witness ==
    /\ pc = "dashboard"
    /\ \E i \in 1..Len(dashboard_gdf) :
          /\ dashboard_gdf[i].rai > 0
          /\ Cardinality(MergedRowsOf(dashboard_gdf[i].id_cultivation)) = 2

\* the filtered plots with a merged row of positive burn area
BurnedPlots ==
    { id \in PlotIdsOf(dashboard_gdf) :
        \E k \in MergedRowsOf(id) : dashboard_merged[k].Burn_area > 0 }

\* C8: % Plots with Fire is 100 * (distinct plots with a merged row of
\* Burn_area > 0) / (filtered plots) when there are filtered plots, and 0
\* when there are none; a plot with several burn rows counts once.
C8_PctPlotsWithFire ==
    pc = "dashboard" =>
        IF Len(dashboard_gdf) > 0
        THEN /\ metrics.pct.den > 0
             /\ metrics.pct.num * Len(dashboard_gdf)
                  = 100 * Cardinality(BurnedPlots) * metrics.pct.den
        ELSE metrics.pct.num = 0 /\ metrics.pct.den > 0

\* C8 witness: one of two filtered plots has two rows of positive burn area
C8_Witness ==
    /\ pc = "dashboard"
    /\ Len(dashboard_gdf) = 2
    /\ \E id \in BurnedPlots :
          Cardinality({ k \in MergedRowsOf(id) : dashboard_merged[k].Burn_area > 0 }) = 2
    /\ metrics.pct = [ num |-> 100, den |-> 2 ]

\* the tables as load_and_prep_data returns them for the session's files
LoadedPlots == PrepPlots(ProvinceFilter(cult_file), cult_file.has_usages)

LoadedBurns == PrepBurn(burn_file.rows)

\* C9: through every sequence of filter changes the cached and module-level
\* tables are the tables of the load, and the merged view and the metrics are
\* those of the current widget values over these tables, whatever was shown
\* before.
C9_RecomputationIsPure ==
    pc = "dashboard" =>
        /\ cache.gdf = LoadedPlots /\ cache.burn = LoadedBurns
        /\ gdf_cultivation = LoadedPlots /\ df_burn_raw = LoadedBurns
        /\ dashboard_merged = DashboardMerged(LoadedPlots, LoadedBurns, filters)
        /\ metrics = Metrics(DistrictFilter(LoadedPlots, filters.district),
                             DashboardMerged(LoadedPlots, LoadedBurns, filters))

\* C9 witness: a rerun after a widget change whose filters drop a plot and a
\* burn event
C9_Witness ==
    /\ pc = "dashboard"
    /\ "cache" \in ran
    /\ Len(filtered_burns) < Len(df_burn_raw)
    /\ Len(dashboard_gdf) < Len(gdf_cultivation)
    /\ filtered_burns # << >>

\* C10: a run whose burn file cannot be read, or whose two geometry reads
\* both fail, ends halted with an error surfaced; a halted run has returned
\* no table, cached nothing, and run no merge, filter, join, metric or map
\* step; after a burn failure no cultivation step has run.
C10_FatalLoadHalts ==
    /\ (~burn_file.readable /\ "burn" \in ran) => pc = "halted"
    /\ (~ReadASucceeds(cult_file) /\ ~ReadBSucceeds(cult_file) /\ "geoB" \in ran)
          => pc = "halted"
    /\ pc = "halted" =>
          /\ error # ""
          /\ ~cache.hit
          /\ gdf_cultivation = << >> /\ df_burn_raw = << >> /\ df_merged = << >>
          /\ ran \cap {"merge", "filter", "join", "metrics", "map", "slider"} = {}
          /\ dashboard_merged = << >> /\ metrics = NoMetrics
          /\ error = "active_burn.parquet" => ran = {"burn"}

\* C10 witness: both geometry reads have failed and the run is halted
C10_Witness ==
    /\ pc = "halted"
    /\ cult_file.geo = "corrupt"
    /\ ran = {"burn", "geoA", "geoB"}
    /\ error = "plant_cultivation.parquet"

\* C11: a Specific ID lookup of a positive identifier that is not in the
\* cultivation table ends the run at the lookup with the not-found message:
\* no exception and no load error, the cached tables are still those of the
\* load, and the session is live: the next input, on either page, is
\* answered from the cache, not by a restart of the load.
C11_LookupNotFound ==
    ( /\ inspector.search_mode = "id"
      /\ inspector.input_id > 0
      /\ inspector.input_id \notin PlotIdsOf(LoadedPlots) ) =>
        /\ pc = "stopped"
        /\ inspector.message = "not_found"
        /\ inspector.selected_id = NoId
        /\ error = ""
        /\ cache = [ hit |-> TRUE, gdf |-> LoadedPlots, burn |-> LoadedBurns,
                     merged |-> FillNa(MergeLeft(LoadedPlots, LoadedBurns)) ]
        /\ gdf_cultivation = LoadedPlots /\ df_burn_raw = LoadedBurns
        /\ SessionLive

\* C11 witness: identifier 102 looked up in a loaded table that has plots
\* but not this one
C11_Witness ==
    /\ pc = "stopped"
    /\ inspector.search_mode = "id"
    /\ inspector.input_id = 102
    /\ inspector.message = "not_found"
    /\ cache.gdf # << >>
    /\ 102 \notin PlotIdsOf(cache.gdf)

\* a displayed date cell shows the raw date value: its ISO date when it
\* parses, no date otherwise
DateShown(cell, raw) ==
    IF raw.kind = "date" THEN cell = [kind |-> "iso", day |-> raw.day]
    ELSE cell.kind # "iso"

\* history row r is the row of the structured entry e
RowOf(r, e) ==
    /\ DateShown(r.Plant_Date, e.plantDate)
    /\ DateShown(r.Harvest_Date, e.harvestDate)
    /\ r.Season = HistGet(e.extension, "seasonName")
    /\ r.Variety = HistGet(e.extension, "riceVariety")
    /\ r.Type = HistGet(e.extension, "riceType")

\* the usages value of the plot the inspector shows
InspectedUsages ==
    LET found == SelectSeq(LoadedPlots,
                           LAMBDA p : p.id_cultivation = inspector.selected_id)
    IN  found[1].usages

\* the part of C14 about retention, order and exceptions: a plot with a
\* usages column is shown without a script error, its history has one row
\* per structured entry, every entry has its row, rows with a plant date are
\* in descending order, and the harvest markers are those of the rows with a
\* harvest date
C14_RetainedAndOrdered ==
    (inspector.selected_id # NoId /\ cult_file.has_usages) =>
        /\ pc = "inspector"
        /\ LET S == StructuredEntries(InspectedUsages)
               h == inspector.history_df
           IN  /\ Len(h) = Len(S)
               /\ \E p \in Permutations(1..Len(S)) :
                     \A k \in 1..Len(S) : RowOf(h[k], S[p[k]])
               /\ \A i, j \in 1..Len(h) :
                     ( /\ i < j
                       /\ h[i].Plant_Date.kind = "iso"
                       /\ h[j].Plant_Date.kind = "iso" )
                     => h[i].Plant_Date.day >= h[j].Plant_Date.day
               /\ inspector.farmer_burns # << >> =>
                     Len(inspector.markers)
                        = Cardinality({ k \in 1..Len(S) : S[k].harvestDate.kind = "date" })

\* C14 as stated: the full history keeps every structured entry, in
\* descending order of plant date, never raises, and every plant-date and
\* harvest-date cell is an ISO date or the explicit "not available" marker,
\* never a null.
C14_FullHistory ==
    /\ C14_RetainedAndOrdered
    /\ \A k \in 1..Len(inspector.history_df) :
          /\ inspector.history_df[k].Plant_Date.kind \in {"iso", "not_available"}
          /\ inspector.history_df[k].Harvest_Date.kind \in {"iso", "not_available"}

\* the variety and type labels the summary row owes to the selected entry e:
\* the extension block's value, Unknown when there is no block or the block
\* lacks the field
LabelsOf(row, e) ==
    /\ row.Rice_Variety = IF e.extension.kind = "dict" /\ e.extension.riceVariety # "absent"
                          THEN e.extension.riceVariety ELSE Unknown
    /\ row.Rice_Type = IF e.extension.kind = "dict" /\ e.extension.riceType # "absent"
                       THEN e.extension.riceType ELSE Unknown

\* the part of C13 about an entry that has an extension block
C13_LabelsFromExtension ==
    (pc \in AfterPrep /\ cult_file.has_usages) =>
        \A i \in 1..Len(gdf.rows) :
            LET u == gdf.rows[i].usages
                S == StructuredEntries(u)
            IN  ( /\ DatedEntries(u) # {}
                  /\ \A k \in DatedEntries(u) : S[k].extension.kind = "dict" ) =>
                    \E k \in DatedEntries(u) :
                        /\ \A j \in DatedEntries(u) :
                              S[j].plantDate.day <= S[k].plantDate.day
                        /\ LabelsOf(gdf.rows[i], S[k])

\* C13 as stated: for a plot with a structured entry, the variety and the
\* type of the summary are those of the selected entry's extension block,
\* "Unknown" when the entry has no extension block or the block lacks the
\* field, and never null or missing.
C13_LabelsNeverNull ==
    (pc \in AfterPrep /\ cult_file.has_usages) =>
        \A i \in 1..Len(gdf.rows) :
            LET u == gdf.rows[i].usages
                S == StructuredEntries(u)
            IN  S # << >> =>
                    /\ gdf.rows[i].Rice_Variety # NaNStr
                    /\ gdf.rows[i].Rice_Type # NaNStr
                    /\ DatedEntries(u) # {} =>
                          \E k \in DatedEntries(u) :
                              /\ \A j \in DatedEntries(u) :
                                    S[j].plantDate.day <= S[k].plantDate.day
                              /\ LabelsOf(gdf.rows[i], S[k])

\* C12: the geometry-aware read comes first; the plain read with the WKB
\* decode is attempted if and only if the first read failed; when the first
\* read succeeds its table is the one used and the fallback never runs; the
\* run is halted at the geometry stage exactly when both reads have failed.
C12_DecodeOrder ==
    /\ "geoB" \in ran => ("geoA" \in ran /\ ~ReadASucceeds(cult_file))
    /\ ("geoA" \in ran /\ ~ReadASucceeds(cult_file) /\ pc # "geoA_failed")
          => "geoB" \in ran
    /\ ("geoA" \in ran /\ ReadASucceeds(cult_file)) =>
          /\ "geoB" \notin ran
          /\ pc = "geo_loaded" => gdf = [ crs |-> cult_file.crs, rows |-> cult_file.rows ]
    /\ (pc = "halted" /\ "geoA" \in ran /\ "prep" \notin ran)
          <=> ( /\ "geoB" \in ran
                /\ ~ReadASucceeds(cult_file)
                /\ ~ReadBSucceeds(cult_file) )

\* C12 witness: the first read failed, the fallback decoded the file, and
\* the run goes on with the fallback's table
C12_Witness ==
    /\ pc = "geo_loaded"
    /\ ran = {"burn", "geoA", "geoB"}
    /\ cult_file.geo = "wkb"
    /\ gdf.rows = cult_file.rows
    /\ gdf.rows # << >>

====
